---------------------------- MODULE Spec2Model ----------------------------
(***************************************************************************)
(* EduTrack (src/app.py): the role-scoped permission and data-visibility   *)
(* checks of the request handlers, over the tables they read and write.    *)
(*                                                                         *)
(* A table is a function from the ids of its rows to records.  One action  *)
(* is one request: the handler named like the action, run to its return    *)
(* by the authenticated user `u` (flask_login's current_user), with the    *)
(* HTTP method and the form or JSON fields as inputs.  `resp` is what the  *)
(* handler returned; send_response hands it to the client and the server   *)
(* is ready for the next request (requests are served one at a time, and   *)
(* a handler reads the tables, never an earlier response).                 *)
(*                                                                         *)
(* Storage semantics taken from the declarations in src/app.py:            *)
(*  - Integer primary keys on SQLite (no AUTOINCREMENT): a new row gets    *)
(*    the largest id in the table plus one, so the id of a deleted last    *)
(*    row is handed out again;                                             *)
(*  - foreign keys are not enforced (SQLite default), NOT NULL and UNIQUE  *)
(*    are;                                                                 *)
(*  - deleting a row that a relationship() links through a secondary       *)
(*    table removes its rows of that table; deleting a row that Grade      *)
(*    rows point to through a relationship() sets their foreign key to     *)
(*    NULL, which the NOT NULL column refuses: the commit raises and the   *)
(*    request ends with a 500 and nothing changed;                         *)
(*  - query.filter_by(...).first() with no ORDER BY scans in id order.     *)
(***************************************************************************)
EXTENDS Integers, FiniteSets, Sequences, TLC

\* ------------------------------------------------------------------ bounds
MaxUsers == 6
MaxStudents == 2
MaxClasses == 2
MaxSubjects == 2
MaxGrades == 2
MaxRows == 8
MaxRecords == 4

\* ------------------------------------------------------------ input domains
Methods == {"GET", "POST"}

\* The name, code and description fields of the subject forms.  Physics/PHY
\* and Biology/BIO can coexist; each of the other two collides with one of
\* them on the name and with the other on the code.
SubjectForms ==
    { [name |-> "Physics", code |-> "PHY", description |-> ""],
      [name |-> "Biology", code |-> "BIO", description |-> "science"],
      [name |-> "Physics", code |-> "BIO", description |-> "science"],
      [name |-> "Biology", code |-> "PHY", description |-> ""] }

PersonNames == {"Alice", "Bob"}

\* The name, email and password fields of the teacher forms.
TeacherForms ==
    { [name |-> "Bob", email |-> "bob.stone@edutrack.com", password |-> "teacher123"] }

\* A JSON field the request body does not carry (data.get(key, default)).
Unsent == "<unsent>"

\* An id of 0 stands for None: a nullable foreign key that is NULL, or an
\* optional id field the request did not send.
UserIds == 1..MaxUsers
StudentIds == 1..MaxStudents
ClassIds == 1..MaxClasses
SubjectIds == 1..MaxSubjects
GradeIds == 1..MaxGrades

\* The student_id, subject_id and grade_value fields of the grade forms.
GradeForms ==
    { [student_id |-> 1, subject_id |-> 1, grade_value |-> 60],
      [student_id |-> 2, subject_id |-> 1, grade_value |-> 95] }

VARIABLES
    users,           \* User rows: id -> [name, role, email, password_hash]
    classes,         \* Class rows: id -> [name, teacher_id]
    students,        \* Student rows: id -> [name, class_id]
    subjects,        \* Subject rows: id -> [name, code, description, created_by]
    grades,          \* Grade rows: id -> [student_id, subject_id, teacher_id, grade_value]
    teacher_subject, \* association table: set of <<teacher_id, subject_id>>
    parent_student,  \* association table: set of <<parent_id, student_id>>
    resp             \* the response of the last request

vars == <<users, classes, students, subjects, grades, teacher_subject,
          parent_student, resp>>

tables == <<users, classes, students, subjects, grades, teacher_subject,
            parent_student>>

\* ----------------------------------------------------------------- tables
Max(S) == CHOOSE x \in S : \A y \in S : y <= x

Min(S) == CHOOSE x \in S : \A y \in S : x <= y

\* The id a new row of table t gets.
NextId(t) == IF DOMAIN t = {} THEN 1 ELSE Max(DOMAIN t) + 1

\* db.session.add(row); db.session.commit()
Insert(t, row) == [i \in DOMAIN t \cup {NextId(t)} |-> IF i \in DOMAIN t THEN t[i] ELSE row]

\* db.session.delete(t[id]); db.session.commit()
Remove(t, id) == [i \in DOMAIN t \ {id} |-> t[i]]

\* current_user.role.name
RoleOf(u) == users[u].role

\* current_user.subjects.all(), as ids
SubjectsOf(u) == {s \in DOMAIN subjects : <<u, s>> \in teacher_subject}

\* current_user.children.all(), as ids
ChildrenOf(u) == {s \in DOMAIN students : <<u, s>> \in parent_student}

\* ---------------------------------------------------------------- responses
\* status: OK (the handler did or showed what was asked), DENIED (a role or
\*   ownership check refused), NOT_FOUND (get_or_404), REJECTED (a validation
\*   message, the form is shown again), ERROR (the commit raised),
\*   UNAUTHENTICATED (@login_required sent the caller to the login page).
\* via: how the handler returned (render, redirect, json, abort).
\* flash: the category of the flashed message ("message" is flask's default),
\*   or "none".
\* gives: the lists of rows handed to the template or to the JSON body, with
\*   the ids of the rows in the field of that name.
NoRows == [students |-> {}, subjects |-> {}, grades |-> {}, users |-> {}, classes |-> {}]

Response(op, m, u, id, status, via, http, flash) ==
    [op |-> op, method |-> m, actor |-> u, id |-> id, status |-> status,
     via |-> via, http |-> http, flash |-> flash, gives |-> {}, rows |-> NoRows]

\* No request is being served.
Idle == Response("none", "GET", 0, 0, "NONE", "none", 0, "none")

\* flash("Access denied: ..."); return redirect(...) on a refused role check
DeniedPage(op, m, u, id) == Response(op, m, u, id, "DENIED", "redirect", 302, "message")

\* flash("Access denied: ...", 'danger'); return redirect(...) on a refused ownership check
DeniedOwner(op, m, u, id) == Response(op, m, u, id, "DENIED", "redirect", 302, "danger")

\* Mutant: the error body goes out with the default status.
DeniedJson_Status200(op, m, u, id) == Response(op, m, u, id, "DENIED", "json", 200, "none")

\* return jsonify({'error': 'Access denied'}), 403
DeniedJson(op, m, u, id) == Response(op, m, u, id, "DENIED", "json", 403, "none")

\* Mutant: a missing row is answered like a refused role check.
NotFound_Refused(op, m, u, id) == Response(op, m, u, id, "DENIED", "redirect", 302, "message")

\* get_or_404 on a missing row
NotFound(op, m, u, id) == Response(op, m, u, id, "NOT_FOUND", "abort", 404, "none")

\* the commit raised IntegrityError
ServerError(op, m, u, id) == Response(op, m, u, id, "ERROR", "abort", 500, "none")

\* flash(..., category); return redirect(...) after the work is done
Done(op, m, u, id, flash) == Response(op, m, u, id, "OK", "redirect", 302, flash)

\* return render_template(...) with the listed rows
Page(op, m, u, id, status, gives, rows) ==
    [Response(op, m, u, id, status, "render", 200,
              IF status = "REJECTED" THEN "danger" ELSE "none")
        EXCEPT !.gives = gives, !.rows = rows]

\* return jsonify(...)
Json(op, m, u, id, http, gives, rows) ==
    [Response(op, m, u, id, "OK", "json", http, "none") EXCEPT !.gives = gives, !.rows = rows]

\* @login_required for a caller who is not logged in: flask_login flashes its
\* message and redirects to login_view; current_user is the anonymous user
LoginRedirect(op, m, id) == Response(op, m, 0, id, "UNAUTHENTICATED", "redirect", 302, "message")

\* current_user.role.name raised AttributeError: the user has no role
NoRoleError(op, m, u, id) == Response(op, m, u, id, "ERROR", "raise", 500, "none")

\* generate_password_hash(password): what check_password_hash accepts for this password and no other
Hash(password) == <<"pbkdf2", password>>

\* -------------------------------------------------------------------- Init
\* The tables after `flask initdata` cut down to one user of each role (two
\* teachers), one class, one student linked to the parent, and no subject
\* or grade yet.
Init ==
    /\ users = (1 :> [name |-> "Admin User", role |-> "Admin",
                     email |-> "admin@example.com", password_hash |-> Hash("password123")]) @@
               (2 :> [name |-> "Michael Johnson", role |-> "Teacher",
                     email |-> "michael.johnson@edutrack.com", password_hash |-> Hash("teacher123")]) @@
               (3 :> [name |-> "Emily Davis", role |-> "Teacher",
                     email |-> "emily.davis@edutrack.com", password_hash |-> Hash("teacher123")]) @@
               (4 :> [name |-> "Alice", role |-> "Student",
                     email |-> "alice.smith@student.edu", password_hash |-> Hash("student123")]) @@
               (5 :> [name |-> "Mary Smith", role |-> "Parent",
                     email |-> "mary.smith@parent.com", password_hash |-> Hash("parent123")])
    /\ classes = (1 :> [name |-> "Grade 1A", teacher_id |-> 2])
    /\ students = (1 :> [name |-> "Alice", class_id |-> 1])
    /\ subjects = << >>
    /\ grades = << >>
    /\ teacher_subject = {}
    /\ parent_student = {<<5, 1>>}
    /\ resp = Idle

\* ------------------------------------------------------------ role checks
\* load_user: the session's user id resolves to a User row (0: no session)
IsAuthenticated(u) == u \in DOMAIN users

\* @login_required turned the caller away, before the handler ran.
Unauthorized(op, m, u, id) ==
    /\ resp' = LoginRedirect(op, m, id)
    /\ UNCHANGED tables

\* User.role_id is nullable; the role column of a user without a role.
NoRole == "<no role>"

\* current_user.role is None: reading its .name raises
HasNoRole(u) == users[u].role = NoRole

\* The handler ends in the exception, before it wrote anything.
Raised(op, m, u, id) ==
    /\ resp' = NoRoleError(op, m, u, id)
    /\ UNCHANGED tables

\* Mutant: the list of roles lost 'Admin'.
IsStaff_TeacherOnly(u) == RoleOf(u) \in {"Teacher"}

\* current_user.role.name not in ['Admin', 'Teacher']  (negated: the check passes)
IsStaff(u) == RoleOf(u) \in {"Admin", "Teacher"}

\* Mutant: teachers pass the Admin check too.
IsAdmin_OrTeacher(u) == RoleOf(u) \in {"Admin", "Teacher"}

\* current_user.role.name != 'Admin'  (negated)
IsAdmin(u) == RoleOf(u) = "Admin"

\* Mutant: the check written as "not an Admin".
IsTeacher_NotAdmin(u) == RoleOf(u) # "Admin"

\* current_user.role.name != 'Teacher'  (negated)
IsTeacher(u) == RoleOf(u) = "Teacher"

\* ---------------------------------------------------- TEACHER: subjects
\* Mutant: being assigned is the only way in, the creator is forgotten.
MayEditSubject_AssignedOnly(u, id) ==
    ~(RoleOf(u) = "Teacher" /\ id \notin SubjectsOf(u))

\* Mutant: the creator is the only way in, as in delete_subject.
MayEditSubject_CreatorOnly(u, id) ==
    ~(RoleOf(u) = "Teacher" /\ subjects[id].created_by # u)

\* Teachers can only edit subjects they created or are assigned to.
MayEditSubject(u, id) ==
    ~(RoleOf(u) = "Teacher" /\ subjects[id].created_by # u /\ id \notin SubjectsOf(u))

\* Mutant: the check of edit_subject copied into delete_subject.
MayDeleteSubject_LikeEdit(u, id) ==
    ~(RoleOf(u) = "Teacher" /\ subjects[id].created_by # u /\ id \notin SubjectsOf(u))

\* Teachers can only delete subjects they created.
MayDeleteSubject(u, id) ==
    ~(RoleOf(u) = "Teacher" /\ subjects[id].created_by # u)

\* Subject.query.filter_by(name=name).first(), as a set of ids (name is unique)
SubjectsNamed(name) == {s \in DOMAIN subjects : subjects[s].name = name}

\* Mutant: the lookup by code finds nothing.
SubjectsCoded_None(code) == {}

\* Subject.query.filter_by(code=code).first()
SubjectsCoded(code) == {s \in DOMAIN subjects : subjects[s].code = code}

\* Grade rows a delete of the row would have to set to NULL.
GradesOfSubject(id) == {g \in DOMAIN grades : grades[g].subject_id = id}

\* GET /subjects
subjects_page(u) ==
    IF ~IsAuthenticated(u) THEN Unauthorized("subjects", "GET", u, 0)
    ELSE IF HasNoRole(u) THEN Raised("subjects", "GET", u, 0)
    ELSE
    /\ resp' = IF ~IsStaff(u)
               THEN DeniedPage("subjects", "GET", u, 0)
               ELSE Page("subjects", "GET", u, 0, "OK", {"subjects"},
                         [NoRows EXCEPT !.subjects = DOMAIN subjects])
    /\ UNCHANGED tables

\* Mutant: the creating teacher is not assigned to the new subject.
add_subject_NoAutoAssign(u, m, f) ==
    IF ~IsAuthenticated(u) THEN Unauthorized("add_subject", m, u, 0)
    ELSE IF HasNoRole(u) THEN Raised("add_subject", m, u, 0)
    ELSE IF ~IsStaff(u) THEN
        /\ resp' = DeniedPage("add_subject", m, u, 0)
        /\ UNCHANGED tables
    ELSE IF m = "GET" THEN
        /\ resp' = Page("add_subject", m, u, 0, "OK", {}, NoRows)
        /\ UNCHANGED tables
    ELSE IF SubjectsNamed(f.name) # {} \/ SubjectsCoded(f.code) # {} THEN
        /\ resp' = Page("add_subject", m, u, 0, "REJECTED", {}, NoRows)
        /\ UNCHANGED tables
    ELSE
        /\ NextId(subjects) <= MaxSubjects
        /\ subjects' = Insert(subjects, [name |-> f.name, code |-> f.code,
                                         description |-> f.description, created_by |-> u])
        /\ teacher_subject' = teacher_subject
        /\ resp' = Done("add_subject", m, u, NextId(subjects), "success")
        /\ UNCHANGED <<users, classes, students, grades, parent_student>>

\* GET, POST /subject/add
add_subject(u, m, f) ==
    IF ~IsAuthenticated(u) THEN Unauthorized("add_subject", m, u, 0)
    ELSE IF HasNoRole(u) THEN Raised("add_subject", m, u, 0)
    ELSE IF ~IsStaff(u) THEN
        /\ resp' = DeniedPage("add_subject", m, u, 0)
        /\ UNCHANGED tables
    ELSE IF m = "GET" THEN
        /\ resp' = Page("add_subject", m, u, 0, "OK", {}, NoRows)
        /\ UNCHANGED tables
    ELSE IF SubjectsNamed(f.name) # {} \/ SubjectsCoded(f.code) # {} THEN
        /\ resp' = Page("add_subject", m, u, 0, "REJECTED", {}, NoRows)
        /\ UNCHANGED tables
    ELSE
        /\ NextId(subjects) <= MaxSubjects
        /\ subjects' = Insert(subjects, [name |-> f.name, code |-> f.code,
                                         description |-> f.description, created_by |-> u])
        /\ teacher_subject' = IF RoleOf(u) = "Teacher"
                              THEN teacher_subject \cup {<<u, NextId(subjects)>>}
                              ELSE teacher_subject
        /\ resp' = Done("add_subject", m, u, NextId(subjects), "success")
        /\ UNCHANGED <<users, classes, students, grades, parent_student>>

\* GET, POST /subject/edit/<id>
edit_subject(u, m, id, f) ==
    IF ~IsAuthenticated(u) THEN Unauthorized("edit_subject", m, u, id)
    ELSE IF HasNoRole(u) THEN Raised("edit_subject", m, u, id)
    ELSE IF ~IsStaff(u) THEN
        /\ resp' = DeniedPage("edit_subject", m, u, id)
        /\ UNCHANGED tables
    ELSE IF id \notin DOMAIN subjects THEN
        /\ resp' = NotFound("edit_subject", m, u, id)
        /\ UNCHANGED tables
    ELSE IF ~MayEditSubject(u, id) THEN
        /\ resp' = DeniedOwner("edit_subject", m, u, id)
        /\ UNCHANGED tables
    ELSE IF m = "GET" THEN
        /\ resp' = Page("edit_subject", m, u, id, "OK", {}, [NoRows EXCEPT !.subjects = {id}])
        /\ UNCHANGED tables
    ELSE IF SubjectsNamed(f.name) \ {id} # {} \/ SubjectsCoded(f.code) \ {id} # {} THEN
        /\ resp' = Page("edit_subject", m, u, id, "REJECTED", {}, [NoRows EXCEPT !.subjects = {id}])
        /\ UNCHANGED tables
    ELSE
        /\ subjects' = [subjects EXCEPT ![id].name = f.name, ![id].code = f.code,
                                        ![id].description = f.description]
        /\ resp' = Done("edit_subject", m, u, id, "success")
        /\ UNCHANGED <<users, classes, students, grades, teacher_subject, parent_student>>

\* POST /subject/delete/<id>
delete_subject(u, id) ==
    IF ~IsAuthenticated(u) THEN Unauthorized("delete_subject", "POST", u, id)
    ELSE IF HasNoRole(u) THEN Raised("delete_subject", "POST", u, id)
    ELSE IF ~IsStaff(u) THEN
        /\ resp' = DeniedPage("delete_subject", "POST", u, id)
        /\ UNCHANGED tables
    ELSE IF id \notin DOMAIN subjects THEN
        /\ resp' = NotFound("delete_subject", "POST", u, id)
        /\ UNCHANGED tables
    ELSE IF ~MayDeleteSubject(u, id) THEN
        /\ resp' = DeniedOwner("delete_subject", "POST", u, id)
        /\ UNCHANGED tables
    ELSE IF GradesOfSubject(id) # {} THEN
        /\ resp' = ServerError("delete_subject", "POST", u, id)
        /\ UNCHANGED tables
    ELSE
        /\ subjects' = Remove(subjects, id)
        /\ teacher_subject' = {p \in teacher_subject : p[2] # id}
        /\ resp' = Done("delete_subject", "POST", u, id, "success")
        /\ UNCHANGED <<users, classes, students, grades, parent_student>>

\* Mutant: the link is inserted without looking for it first; the primary
\* key of teacher_subject refuses the second row.
assign_subject_NoCheck(u, id) ==
    IF ~IsAuthenticated(u) THEN Unauthorized("assign_subject", "POST", u, id)
    ELSE IF HasNoRole(u) THEN Raised("assign_subject", "POST", u, id)
    ELSE IF ~IsTeacher(u) THEN
        /\ resp' = DeniedPage("assign_subject", "POST", u, id)
        /\ UNCHANGED tables
    ELSE IF id \notin DOMAIN subjects THEN
        /\ resp' = NotFound("assign_subject", "POST", u, id)
        /\ UNCHANGED tables
    ELSE IF id \in SubjectsOf(u) THEN
        /\ resp' = ServerError("assign_subject", "POST", u, id)
        /\ UNCHANGED tables
    ELSE
        /\ teacher_subject' = teacher_subject \cup {<<u, id>>}
        /\ resp' = Done("assign_subject", "POST", u, id,
                         IF id \in SubjectsOf(u) THEN "info" ELSE "success")
        /\ UNCHANGED <<users, classes, students, subjects, grades, parent_student>>

\* POST /subject/<id>/assign
assign_subject(u, id) ==
    IF ~IsAuthenticated(u) THEN Unauthorized("assign_subject", "POST", u, id)
    ELSE IF HasNoRole(u) THEN Raised("assign_subject", "POST", u, id)
    ELSE IF ~IsTeacher(u) THEN
        /\ resp' = DeniedPage("assign_subject", "POST", u, id)
        /\ UNCHANGED tables
    ELSE IF id \notin DOMAIN subjects THEN
        /\ resp' = NotFound("assign_subject", "POST", u, id)
        /\ UNCHANGED tables
    ELSE
        /\ teacher_subject' = teacher_subject \cup {<<u, id>>}
        /\ resp' = Done("assign_subject", "POST", u, id,
                         IF id \in SubjectsOf(u) THEN "info" ELSE "success")
        /\ UNCHANGED <<users, classes, students, subjects, grades, parent_student>>

\* Mutant: the subject loses every teacher, not only the one who asked.
unassign_subject_Everyone(u, id) ==
    IF ~IsAuthenticated(u) THEN Unauthorized("unassign_subject", "POST", u, id)
    ELSE IF HasNoRole(u) THEN Raised("unassign_subject", "POST", u, id)
    ELSE IF ~IsTeacher(u) THEN
        /\ resp' = DeniedPage("unassign_subject", "POST", u, id)
        /\ UNCHANGED tables
    ELSE IF id \notin DOMAIN subjects THEN
        /\ resp' = NotFound("unassign_subject", "POST", u, id)
        /\ UNCHANGED tables
    ELSE
        /\ teacher_subject' = {p \in teacher_subject : p[2] # id}
        /\ resp' = Done("unassign_subject", "POST", u, id,
                         IF id \notin SubjectsOf(u) THEN "info" ELSE "success")
        /\ UNCHANGED <<users, classes, students, subjects, grades, parent_student>>

\* POST /subject/<id>/unassign
unassign_subject(u, id) ==
    IF ~IsAuthenticated(u) THEN Unauthorized("unassign_subject", "POST", u, id)
    ELSE IF HasNoRole(u) THEN Raised("unassign_subject", "POST", u, id)
    ELSE IF ~IsTeacher(u) THEN
        /\ resp' = DeniedPage("unassign_subject", "POST", u, id)
        /\ UNCHANGED tables
    ELSE IF id \notin DOMAIN subjects THEN
        /\ resp' = NotFound("unassign_subject", "POST", u, id)
        /\ UNCHANGED tables
    ELSE
        /\ teacher_subject' = teacher_subject \ {<<u, id>>}
        /\ resp' = Done("unassign_subject", "POST", u, id,
                         IF id \notin SubjectsOf(u) THEN "info" ELSE "success")
        /\ UNCHANGED <<users, classes, students, subjects, grades, parent_student>>

\* ------------------------------------------------ main pages, students API
\* GET /dashboard: the three counts
dashboard(u) ==
    IF ~IsAuthenticated(u) THEN Unauthorized("dashboard", "GET", u, 0)
    ELSE IF HasNoRole(u) THEN Raised("dashboard", "GET", u, 0)
    ELSE
    /\ resp' = Page("dashboard", "GET", u, 0, "OK", {}, NoRows)
    /\ UNCHANGED tables

\* GET /students
students_page(u) ==
    IF ~IsAuthenticated(u) THEN Unauthorized("students_page", "GET", u, 0)
    ELSE IF HasNoRole(u) THEN Raised("students_page", "GET", u, 0)
    ELSE
    /\ resp' = IF ~IsStaff(u)
               THEN DeniedPage("students_page", "GET", u, 0)
               ELSE Page("students_page", "GET", u, 0, "OK", {}, NoRows)
    /\ UNCHANGED tables

\* Grade rows a delete of the student would have to set to NULL.
GradesOfStudent(id) == {g \in DOMAIN grades : grades[g].student_id = id}

\* GET, POST /api/students
api_students(u, m, name, class_id) ==
    IF ~IsAuthenticated(u) THEN Unauthorized("api_students", m, u, 0)
    ELSE IF HasNoRole(u) THEN Raised("api_students", m, u, 0)
    ELSE IF ~IsStaff(u) THEN
        /\ resp' = DeniedJson("api_students", m, u, 0)
        /\ UNCHANGED tables
    ELSE IF m = "GET" THEN
        /\ resp' = Json("api_students", m, u, 0, 200, {"students"},
                        [NoRows EXCEPT !.students = DOMAIN students])
        /\ UNCHANGED tables
    ELSE
        /\ NextId(students) <= MaxStudents
        /\ students' = Insert(students, [name |-> name, class_id |-> class_id])
        /\ resp' = Json("api_students", m, u, NextId(students), 201, {},
                        [NoRows EXCEPT !.students = {NextId(students)}])
        /\ UNCHANGED <<users, classes, subjects, grades, teacher_subject, parent_student>>

\* GET /api/students/<id>
get_student(u, id) ==
    IF ~IsAuthenticated(u) THEN Unauthorized("get_student", "GET", u, id)
    ELSE IF HasNoRole(u) THEN Raised("get_student", "GET", u, id)
    ELSE
    /\ resp' = IF ~IsStaff(u) THEN DeniedJson("get_student", "GET", u, id)
               ELSE IF id \notin DOMAIN students THEN NotFound("get_student", "GET", u, id)
               ELSE Json("get_student", "GET", u, id, 200, {},
                         [NoRows EXCEPT !.students = {id}])
    /\ UNCHANGED tables

\* PUT /api/students/<id>; a field that is not sent keeps its value
update_student(u, id, name, class_id) ==
    IF ~IsAuthenticated(u) THEN Unauthorized("update_student", "PUT", u, id)
    ELSE IF HasNoRole(u) THEN Raised("update_student", "PUT", u, id)
    ELSE IF ~IsStaff(u) THEN
        /\ resp' = DeniedJson("update_student", "PUT", u, id)
        /\ UNCHANGED tables
    ELSE IF id \notin DOMAIN students THEN
        /\ resp' = NotFound("update_student", "PUT", u, id)
        /\ UNCHANGED tables
    ELSE
        /\ students' = [students EXCEPT
               ![id].name = IF name = Unsent THEN @ ELSE name,
               ![id].class_id = IF class_id = 0 THEN @ ELSE class_id]
        /\ resp' = Json("update_student", "PUT", u, id, 200, {},
                        [NoRows EXCEPT !.students = {id}])
        /\ UNCHANGED <<users, classes, subjects, grades, teacher_subject, parent_student>>

\* DELETE /api/students/<id>
delete_student(u, id) ==
    IF ~IsAuthenticated(u) THEN Unauthorized("delete_student", "DELETE", u, id)
    ELSE IF HasNoRole(u) THEN Raised("delete_student", "DELETE", u, id)
    ELSE IF ~IsStaff(u) THEN
        /\ resp' = DeniedJson("delete_student", "DELETE", u, id)
        /\ UNCHANGED tables
    ELSE IF id \notin DOMAIN students THEN
        /\ resp' = NotFound("delete_student", "DELETE", u, id)
        /\ UNCHANGED tables
    ELSE IF GradesOfStudent(id) # {} THEN
        /\ resp' = ServerError("delete_student", "DELETE", u, id)
        /\ UNCHANGED tables
    ELSE
        /\ students' = Remove(students, id)
        /\ parent_student' = {p \in parent_student : p[2] # id}
        /\ resp' = Json("delete_student", "DELETE", u, id, 200, {}, NoRows)
        /\ UNCHANGED <<users, classes, subjects, grades, teacher_subject>>

\* ------------------------------------------------ ADMIN: teacher management
\* User.query.join(Role).filter(Role.name == 'Teacher').all(), as ids
TeacherUsers == {t \in DOMAIN users : users[t].role = "Teacher"}

\* Grade rows a delete of the user would have to set to NULL.
GradesGivenBy(id) == {g \in DOMAIN grades : grades[g].teacher_id = id}

\* GET /teachers
teachers(u) ==
    IF ~IsAuthenticated(u) THEN Unauthorized("teachers", "GET", u, 0)
    ELSE IF HasNoRole(u) THEN Raised("teachers", "GET", u, 0)
    ELSE
    /\ resp' = IF ~IsAdmin(u)
               THEN DeniedPage("teachers", "GET", u, 0)
               ELSE Page("teachers", "GET", u, 0, "OK", {"users"},
                         [NoRows EXCEPT !.users = TeacherUsers])
    /\ UNCHANGED tables

\* User rows with this email (the column is UNIQUE).
UsersWithEmail(email) == {x \in DOMAIN users : users[x].email = email}

\* GET, POST /teacher/add
add_teacher(u, m, f) ==
    IF ~IsAuthenticated(u) THEN Unauthorized("add_teacher", m, u, 0)
    ELSE IF HasNoRole(u) THEN Raised("add_teacher", m, u, 0)
    ELSE IF ~IsAdmin(u) THEN
        /\ resp' = DeniedPage("add_teacher", m, u, 0)
        /\ UNCHANGED tables
    ELSE IF m = "GET" THEN
        /\ resp' = Page("add_teacher", m, u, 0, "OK", {}, NoRows)
        /\ UNCHANGED tables
    ELSE IF UsersWithEmail(f.email) # {} THEN
        /\ resp' = ServerError("add_teacher", m, u, 0)
        /\ UNCHANGED tables
    ELSE
        /\ NextId(users) <= MaxUsers
        /\ users' = Insert(users, [name |-> f.name, role |-> "Teacher", email |-> f.email,
                                   password_hash |-> Hash(f.password)])
        /\ resp' = Done("add_teacher", m, u, NextId(users), "message")
        /\ UNCHANGED <<classes, students, subjects, grades, teacher_subject, parent_student>>

\* Mutant: the edit form also makes the user an Admin.
edit_teacher_Promotes(u, m, id, f) ==
    IF ~IsAuthenticated(u) THEN Unauthorized("edit_teacher", m, u, id)
    ELSE IF HasNoRole(u) THEN Raised("edit_teacher", m, u, id)
    ELSE IF ~IsAdmin(u) THEN
        /\ resp' = DeniedPage("edit_teacher", m, u, id)
        /\ UNCHANGED tables
    ELSE IF id \notin DOMAIN users THEN
        /\ resp' = NotFound("edit_teacher", m, u, id)
        /\ UNCHANGED tables
    ELSE IF m = "GET" THEN
        /\ resp' = Page("edit_teacher", m, u, id, "OK", {}, [NoRows EXCEPT !.users = {id}])
        /\ UNCHANGED tables
    ELSE IF UsersWithEmail(f.email) \ {id} # {} THEN
        /\ resp' = ServerError("edit_teacher", m, u, id)
        /\ UNCHANGED tables
    ELSE
        /\ users' = [users EXCEPT ![id].name = f.name, ![id].email = f.email, ![id].role = "Admin"]
        /\ resp' = Done("edit_teacher", m, u, id, "message")
        /\ UNCHANGED <<classes, students, subjects, grades, teacher_subject, parent_student>>

\* GET, POST /teacher/edit/<id>
edit_teacher(u, m, id, f) ==
    IF ~IsAuthenticated(u) THEN Unauthorized("edit_teacher", m, u, id)
    ELSE IF HasNoRole(u) THEN Raised("edit_teacher", m, u, id)
    ELSE IF ~IsAdmin(u) THEN
        /\ resp' = DeniedPage("edit_teacher", m, u, id)
        /\ UNCHANGED tables
    ELSE IF id \notin DOMAIN users THEN
        /\ resp' = NotFound("edit_teacher", m, u, id)
        /\ UNCHANGED tables
    ELSE IF m = "GET" THEN
        /\ resp' = Page("edit_teacher", m, u, id, "OK", {}, [NoRows EXCEPT !.users = {id}])
        /\ UNCHANGED tables
    ELSE IF UsersWithEmail(f.email) \ {id} # {} THEN
        /\ resp' = ServerError("edit_teacher", m, u, id)
        /\ UNCHANGED tables
    ELSE
        /\ users' = [users EXCEPT ![id].name = f.name, ![id].email = f.email]
        /\ resp' = Done("edit_teacher", m, u, id, "message")
        /\ UNCHANGED <<classes, students, subjects, grades, teacher_subject, parent_student>>

\* POST /teacher/delete/<id>
delete_teacher(u, id) ==
    IF ~IsAuthenticated(u) THEN Unauthorized("delete_teacher", "POST", u, id)
    ELSE IF HasNoRole(u) THEN Raised("delete_teacher", "POST", u, id)
    ELSE IF ~IsAdmin(u) THEN
        /\ resp' = DeniedPage("delete_teacher", "POST", u, id)
        /\ UNCHANGED tables
    ELSE IF id \notin DOMAIN users THEN
        /\ resp' = NotFound("delete_teacher", "POST", u, id)
        /\ UNCHANGED tables
    ELSE IF GradesGivenBy(id) # {} THEN
        /\ resp' = ServerError("delete_teacher", "POST", u, id)
        /\ UNCHANGED tables
    ELSE
        /\ users' = Remove(users, id)
        /\ teacher_subject' = {p \in teacher_subject : p[1] # id}
        /\ parent_student' = {p \in parent_student : p[1] # id}
        /\ resp' = Done("delete_teacher", "POST", u, id, "message")
        /\ UNCHANGED <<classes, students, subjects, grades>>

\* ------------------------------------------------------------------ classes
\* GET /classes
classes_page(u) ==
    IF ~IsAuthenticated(u) THEN Unauthorized("classes_page", "GET", u, 0)
    ELSE IF HasNoRole(u) THEN Raised("classes_page", "GET", u, 0)
    ELSE
    /\ resp' = IF ~IsStaff(u)
               THEN DeniedPage("classes_page", "GET", u, 0)
               ELSE Page("classes_page", "GET", u, 0, "OK", {}, NoRows)
    /\ UNCHANGED tables

\* GET, POST /api/classes
api_classes(u, m, name) ==
    IF ~IsAuthenticated(u) THEN Unauthorized("api_classes", m, u, 0)
    ELSE IF HasNoRole(u) THEN Raised("api_classes", m, u, 0)
    ELSE IF ~IsStaff(u) THEN
        /\ resp' = DeniedJson("api_classes", m, u, 0)
        /\ UNCHANGED tables
    ELSE IF m = "GET" THEN
        /\ resp' = Json("api_classes", m, u, 0, 200, {"classes"},
                        [NoRows EXCEPT !.classes = DOMAIN classes])
        /\ UNCHANGED tables
    ELSE
        /\ NextId(classes) <= MaxClasses
        /\ classes' = Insert(classes, [name |-> name, teacher_id |-> 0])
        /\ resp' = Json("api_classes", m, u, NextId(classes), 201, {},
                        [NoRows EXCEPT !.classes = {NextId(classes)}])
        /\ UNCHANGED <<users, students, subjects, grades, teacher_subject, parent_student>>

\* ------------------------------------------------------- GRADES: management
\* current_user.role.name not in ['Admin', 'Teacher', 'Student', 'Parent']  (negated)
MaySeeGrades(u) == RoleOf(u) \in {"Admin", "Teacher", "Student", "Parent"}

\* Mutant: the last match instead of the first.
FirstStudentNamed_Last(name) ==
    LET named == {s \in DOMAIN students : students[s].name = name}
    IN  IF named = {} THEN 0 ELSE Max(named)

\* Student.query.filter_by(name=name).first(): the id, or 0 for None
FirstStudentNamed(name) ==
    LET named == {s \in DOMAIN students : students[s].name = name}
    IN  IF named = {} THEN 0 ELSE Min(named)

\* Mutant: the filter on teacher_id is dropped.
GradesOfTeacher_All(u) == DOMAIN grades

\* Grade.query.filter_by(teacher_id=current_user.id)
GradesOfTeacher(u) == {g \in DOMAIN grades : grades[g].teacher_id = u}

\* The Student branch: the grades of the student record found by name.
GradesOfStudentUser(u) ==
    LET student == FirstStudentNamed(users[u].name)
    IN  IF student # 0
        THEN {g \in DOMAIN grades : grades[g].student_id = student}
        ELSE {}

\* Mutant: the filter on the children's ids is dropped.
GradesOfParent_Unfiltered(u) ==
    IF ChildrenOf(u) # {} THEN DOMAIN grades ELSE {}

\* The Parent branch: the grades of the children.
GradesOfParent(u) ==
    LET children == ChildrenOf(u)
    IN  IF children # {}
        THEN {g \in DOMAIN grades : grades[g].student_id \in children}
        ELSE {}

\* "Get grades based on role", the same in grades() and api_grades()
GradesByRole(u) ==
    IF RoleOf(u) = "Teacher" THEN GradesOfTeacher(u)
    ELSE IF RoleOf(u) = "Student" THEN GradesOfStudentUser(u)
    ELSE IF RoleOf(u) = "Parent" THEN GradesOfParent(u)
    ELSE DOMAIN grades

\* Teachers can only edit their own grades.
MayEditGrade(u, id) == ~(RoleOf(u) = "Teacher" /\ grades[id].teacher_id # u)

\* Mutant: the ownership check of delete_grade is missing.
MayDeleteGrade_AnyGrade(u, id) == RoleOf(u) \in {"Admin", "Teacher"}

\* Teachers can only delete their own grades.
MayDeleteGrade(u, id) == ~(RoleOf(u) = "Teacher" /\ grades[id].teacher_id # u)

\* GET /grades: the grades by role, and all students and subjects "for filters"
grades_page(u) ==
    IF ~IsAuthenticated(u) THEN Unauthorized("grades", "GET", u, 0)
    ELSE IF HasNoRole(u) THEN Raised("grades", "GET", u, 0)
    ELSE
    /\ resp' = IF ~MaySeeGrades(u)
               THEN DeniedPage("grades", "GET", u, 0)
               ELSE Page("grades", "GET", u, 0, "OK", {"grades", "students", "subjects"},
                         [NoRows EXCEPT !.grades = GradesByRole(u),
                                        !.students = DOMAIN students,
                                        !.subjects = DOMAIN subjects])
    /\ UNCHANGED tables

\* GET /api/grades
api_grades(u) ==
    IF ~IsAuthenticated(u) THEN Unauthorized("api_grades", "GET", u, 0)
    ELSE IF HasNoRole(u) THEN Raised("api_grades", "GET", u, 0)
    ELSE
    /\ resp' = IF ~MaySeeGrades(u)
               THEN DeniedJson("api_grades", "GET", u, 0)
               ELSE Json("api_grades", "GET", u, 0, 200, {"grades"},
                         [NoRows EXCEPT !.grades = GradesByRole(u)])
    /\ UNCHANGED tables

\* Mutant: the teacher_id field is taken from every user, teachers too.
AddGradeTeacher_FromForm(u, teacher_id) == IF teacher_id = 0 THEN u ELSE teacher_id

\* "Use current user as teacher if they're a teacher"; teacher_id = 0: not sent
AddGradeTeacher(u, teacher_id) ==
    IF RoleOf(u) = "Teacher" THEN u
    ELSE IF teacher_id = 0 THEN u ELSE teacher_id

\* Mutant: the teacher_id field is taken from every editor, not only an Admin.
EditGradeTeacher_AnyRole(u, id, teacher_id) ==
    IF teacher_id = 0 THEN grades[id].teacher_id ELSE teacher_id

\* The teacher_id edit_grade leaves in the row; teacher_id = 0: not sent
EditGradeTeacher(u, id, teacher_id) ==
    IF RoleOf(u) = "Admin"
    THEN (IF teacher_id = 0 THEN grades[id].teacher_id ELSE teacher_id)
    ELSE grades[id].teacher_id

\* The form of add_grade and edit_grade: the lists for its select boxes.
GradeFormRows ==
    [NoRows EXCEPT !.students = DOMAIN students, !.subjects = DOMAIN subjects,
                   !.users = TeacherUsers]

\* GET, POST /grade/add
add_grade(u, m, f, teacher_id) ==
    IF ~IsAuthenticated(u) THEN Unauthorized("add_grade", m, u, 0)
    ELSE IF HasNoRole(u) THEN Raised("add_grade", m, u, 0)
    ELSE IF ~IsStaff(u) THEN
        /\ resp' = DeniedPage("add_grade", m, u, 0)
        /\ UNCHANGED tables
    ELSE IF m = "GET" THEN
        /\ resp' = Page("add_grade", m, u, 0, "OK", {"students", "subjects", "users"},
                        GradeFormRows)
        /\ UNCHANGED tables
    ELSE
        /\ NextId(grades) <= MaxGrades
        /\ grades' = Insert(grades, [student_id |-> f.student_id, subject_id |-> f.subject_id,
                                     teacher_id |-> AddGradeTeacher(u, teacher_id),
                                     grade_value |-> f.grade_value])
        /\ resp' = Done("add_grade", m, u, NextId(grades), "success")
        /\ UNCHANGED <<users, classes, students, subjects, teacher_subject, parent_student>>

\* GET, POST /grade/edit/<id>
edit_grade(u, m, id, f, teacher_id) ==
    IF ~IsAuthenticated(u) THEN Unauthorized("edit_grade", m, u, id)
    ELSE IF HasNoRole(u) THEN Raised("edit_grade", m, u, id)
    ELSE IF ~IsStaff(u) THEN
        /\ resp' = DeniedPage("edit_grade", m, u, id)
        /\ UNCHANGED tables
    ELSE IF id \notin DOMAIN grades THEN
        /\ resp' = NotFound("edit_grade", m, u, id)
        /\ UNCHANGED tables
    ELSE IF ~MayEditGrade(u, id) THEN
        /\ resp' = DeniedOwner("edit_grade", m, u, id)
        /\ UNCHANGED tables
    ELSE IF m = "GET" THEN
        /\ resp' = Page("edit_grade", m, u, id, "OK", {"students", "subjects", "users"},
                        [GradeFormRows EXCEPT !.grades = {id}])
        /\ UNCHANGED tables
    ELSE
        /\ grades' = [grades EXCEPT ![id] =
               [student_id |-> f.student_id, subject_id |-> f.subject_id,
                teacher_id |-> EditGradeTeacher(u, id, teacher_id),
                grade_value |-> f.grade_value]]
        /\ resp' = Done("edit_grade", m, u, id, "success")
        /\ UNCHANGED <<users, classes, students, subjects, teacher_subject, parent_student>>

\* POST /grade/delete/<id>
delete_grade(u, id) ==
    IF ~IsAuthenticated(u) THEN Unauthorized("delete_grade", "POST", u, id)
    ELSE IF HasNoRole(u) THEN Raised("delete_grade", "POST", u, id)
    ELSE IF ~IsStaff(u) THEN
        /\ resp' = DeniedPage("delete_grade", "POST", u, id)
        /\ UNCHANGED tables
    ELSE IF id \notin DOMAIN grades THEN
        /\ resp' = NotFound("delete_grade", "POST", u, id)
        /\ UNCHANGED tables
    ELSE IF ~MayDeleteGrade(u, id) THEN
        /\ resp' = DeniedOwner("delete_grade", "POST", u, id)
        /\ UNCHANGED tables
    ELSE
        /\ grades' = Remove(grades, id)
        /\ resp' = Done("delete_grade", "POST", u, id, "success")
        /\ UNCHANGED <<users, classes, students, subjects, teacher_subject, parent_student>>

\* ------------------------------------------------------- auth and main pages
\* GET /: a redirect, to the dashboard or to the login page
home(u) ==
    /\ resp' = Response("home", "GET", IF IsAuthenticated(u) THEN u ELSE 0, 0,
                        "OK", "redirect", 302, "none")
    /\ UNCHANGED tables

\* Mutant: any password opens the account of a known email.
login_EmailOnly(m, email, password) ==
    /\ resp' = IF m = "POST" /\ UsersWithEmail(email) # {}
               THEN Done("login", m, Min(UsersWithEmail(email)), 0, "none")
               ELSE Page("login", m, 0, 0, IF m = "POST" THEN "REJECTED" ELSE "OK", {}, NoRows)
    /\ UNCHANGED tables

\* GET/POST /login: the response's actor is the user login_user started a
\* session for, 0 when it started none. check_password_hash raises on a
\* form without a password.
login(m, email, password) ==
    /\ resp' = IF m = "GET" THEN Page("login", m, 0, 0, "OK", {}, NoRows)
               ELSE IF UsersWithEmail(email) = {} THEN
                   Page("login", m, 0, 0, "REJECTED", {}, NoRows)
               ELSE IF password = Unsent THEN ServerError("login", m, 0, 0)
               ELSE IF users[Min(UsersWithEmail(email))].password_hash = Hash(password) THEN
                   Done("login", m, Min(UsersWithEmail(email)), 0, "none")
               ELSE Page("login", m, 0, 0, "REJECTED", {}, NoRows)
    /\ UNCHANGED tables

\* GET /logout: logout_user(), then the login page
logout(u) ==
    /\ resp' = IF ~IsAuthenticated(u) THEN LoginRedirect("logout", "GET", 0)
               ELSE Done("logout", "GET", u, 0, "none")
    /\ UNCHANGED tables

\* ------------------------------------------------------------------- Next
\* The response goes out; the server takes the next request.
send_response ==
    /\ resp # Idle
    /\ resp' = Idle
    /\ UNCHANGED tables

\* A GET carries no form: one choice of the fields stands for all.
FieldsFor(m, S) == IF m = "GET" THEN {CHOOSE x \in S : TRUE} ELSE S

\* A request arrives from the logged-in user u.
Request(u) == resp = Idle /\ u \in DOMAIN users

\* ---- Spec: every handler, with one form of each kind, over small tables
OneSubjectForm == {[name |-> "Physics", code |-> "PHY", description |-> ""]}

OneGradeForm == {[student_id |-> 1, subject_id |-> 1, grade_value |-> 60]}

\* The teacher_id field of the grade forms: not sent, or teacher 3.
SomeTeacherIdFields == {0, 3}

\* The users the teacher-management requests aim at: a seeded teacher, and
\* the teachers add_teacher creates.  Delete requests aim at the rows that
\* requests created.
TeacherTargets == {3} \cup (6..MaxUsers)

AddedTeachers == 6..MaxUsers

AddedStudents == 2..MaxStudents

Rows ==
    Cardinality(DOMAIN users) + Cardinality(DOMAIN classes) + Cardinality(DOMAIN students)
    + Cardinality(DOMAIN subjects) + Cardinality(DOMAIN grades)

\* A request that may create a row arrives only while the tables together
\* hold fewer than MaxRows rows.
Room == Rows < MaxRows

\* Only a POST creates a row.
RoomFor(m) == m = "GET" \/ Room

Next ==
    \/ send_response
    \/ \E u \in UserIds : Request(u) /\ dashboard(u)
    \/ \E u \in UserIds : Request(u) /\ students_page(u)
    \/ \E u \in UserIds, m \in Methods : Request(u) /\ RoomFor(m) /\ api_students(u, m, "Alice", 0)
    \/ \E u \in UserIds, id \in StudentIds : Request(u) /\ get_student(u, id)
    \/ \E u \in UserIds, id \in StudentIds : Request(u) /\ update_student(u, id, "Bob", 0)
    \/ \E u \in UserIds, id \in AddedStudents : Request(u) /\ delete_student(u, id)
    \/ \E u \in UserIds : Request(u) /\ teachers(u)
    \/ \E u \in UserIds, m \in Methods, f \in TeacherForms :
           Request(u) /\ RoomFor(m) /\ add_teacher(u, m, f)
    \/ \E u \in UserIds, m \in Methods, id \in TeacherTargets, f \in TeacherForms :
           Request(u) /\ edit_teacher(u, m, id, f)
    \/ \E u \in UserIds, id \in AddedTeachers : Request(u) /\ delete_teacher(u, id)
    \/ \E u \in UserIds : Request(u) /\ classes_page(u)
    \/ \E u \in UserIds, m \in Methods : Request(u) /\ RoomFor(m) /\ api_classes(u, m, "Grade 2A")
    \/ \E u \in UserIds : Request(u) /\ subjects_page(u)
    \/ \E u \in UserIds, m \in Methods, f \in OneSubjectForm :
           Request(u) /\ RoomFor(m) /\ add_subject(u, m, f)
    \/ \E u \in UserIds, m \in Methods, id \in SubjectIds, f \in OneSubjectForm :
           Request(u) /\ edit_subject(u, m, id, f)
    \/ \E u \in UserIds, id \in SubjectIds : Request(u) /\ delete_subject(u, id)
    \/ \E u \in UserIds, id \in SubjectIds : Request(u) /\ assign_subject(u, id)
    \/ \E u \in UserIds, id \in SubjectIds : Request(u) /\ unassign_subject(u, id)
    \/ \E u \in UserIds : Request(u) /\ grades_page(u)
    \/ \E u \in UserIds : Request(u) /\ api_grades(u)
    \/ \E u \in UserIds, m \in Methods, f \in OneGradeForm : \E t \in FieldsFor(m, SomeTeacherIdFields) :
           Request(u) /\ RoomFor(m) /\ add_grade(u, m, f, t)
    \/ \E u \in UserIds, m \in Methods, id \in GradeIds, f \in OneGradeForm, t \in SomeTeacherIdFields :
           Request(u) /\ edit_grade(u, m, id, f, t)
    \/ \E u \in UserIds, id \in GradeIds : Request(u) /\ delete_grade(u, id)

Spec == Init /\ [][Next]_vars

\* ---- SpecSubjects: subject management, every form
NextSubjects ==
    \/ send_response
    \/ \E u \in UserIds : Request(u) /\ subjects_page(u)
    \/ \E u \in UserIds, m \in Methods : \E f \in FieldsFor(m, SubjectForms) :
           Request(u) /\ add_subject(u, m, f)
    \/ \E u \in UserIds, m \in Methods, id \in SubjectIds : \E f \in FieldsFor(m, SubjectForms) :
           Request(u) /\ edit_subject(u, m, id, f)
    \/ \E u \in UserIds, id \in SubjectIds : Request(u) /\ delete_subject(u, id)
    \/ \E u \in UserIds, id \in SubjectIds : Request(u) /\ assign_subject(u, id)
    \/ \E u \in UserIds, id \in SubjectIds : Request(u) /\ unassign_subject(u, id)

SpecSubjects == Init /\ [][NextSubjects]_vars

\* ---- SpecGrades: grades, and the student records they point to
\* The values of the teacher_id form field of edit_grade: not sent, or a
\* teacher's id.
TeacherIdFields == {0, 2, 3}

\* The add form here always names the teacher the grade is given by.
AddTeacherIdFields == {2, 3}

\* A request that may create a student or a grade arrives only while the
\* two tables together hold fewer than MaxRecords rows.
RecordRoom == Cardinality(DOMAIN students) + Cardinality(DOMAIN grades) < MaxRecords

NextGrades ==
    \/ send_response
    \/ \E u \in UserIds, m \in Methods : \E n \in FieldsFor(m, PersonNames) :
           Request(u) /\ RecordRoom /\ api_students(u, m, n, 0)
    \/ \E u \in UserIds, id \in StudentIds, n \in PersonNames \cup {Unsent} :
           Request(u) /\ update_student(u, id, n, 0)
    \/ \E u \in UserIds, id \in StudentIds : Request(u) /\ delete_student(u, id)
    \/ \E u \in UserIds : Request(u) /\ grades_page(u)
    \/ \E u \in UserIds : Request(u) /\ api_grades(u)
    \/ \E u \in UserIds, m \in Methods : \E f \in FieldsFor(m, GradeForms) :
       \E t \in FieldsFor(m, AddTeacherIdFields) : Request(u) /\ RecordRoom /\ add_grade(u, m, f, t)
    \/ \E u \in UserIds, m \in Methods, id \in GradeIds : \E f \in FieldsFor(m, GradeForms) :
       \E t \in FieldsFor(m, TeacherIdFields) : Request(u) /\ edit_grade(u, m, id, f, t)
    \/ \E u \in UserIds, id \in GradeIds : Request(u) /\ delete_grade(u, id)

SpecGrades == Init /\ [][NextGrades]_vars

\* ---- SpecTeachers: teacher management, aimed at every user id
NextTeachers ==
    \/ send_response
    \/ \E u \in UserIds : Request(u) /\ teachers(u)
    \/ \E u \in UserIds, m \in Methods, f \in TeacherForms : Request(u) /\ add_teacher(u, m, f)
    \/ \E u \in UserIds, m \in Methods, id \in UserIds, f \in TeacherForms :
           Request(u) /\ edit_teacher(u, m, id, f)
    \/ \E u \in UserIds, id \in UserIds : Request(u) /\ delete_teacher(u, id)

SpecTeachers == Init /\ [][NextTeachers]_vars

\* ---- SpecLogin: every route, asked without a session; teacher management
\* by the logged-in users changes the accounts.
\* The session's user id: 0 for no session, an id without a row for a
\* session whose user was deleted.
Callers == 0..MaxUsers

Visitors == Callers \ DOMAIN users

LoginEmails == {"admin@example.com", "michael.johnson@edutrack.com", "bob.stone@edutrack.com", Unsent}

LoginPasswords == {"password123", "teacher123", Unsent}

Arrives == resp = Idle

NextLogin ==
    \/ send_response
    \/ \E u \in Callers : Arrives /\ home(u)
    \/ \E m \in Methods, e \in LoginEmails, pw \in LoginPasswords : Arrives /\ login(m, e, pw)
    \/ \E u \in Callers : Arrives /\ logout(u)
    \/ \E u \in Callers : Arrives /\ teachers(u)
    \/ \E u \in Callers, m \in Methods, f \in TeacherForms : Arrives /\ add_teacher(u, m, f)
    \/ \E u \in Callers, m \in Methods, id \in UserIds, f \in TeacherForms :
           Arrives /\ edit_teacher(u, m, id, f)
    \/ \E u \in Callers, id \in UserIds : Arrives /\ delete_teacher(u, id)
    \/ \E u \in Visitors : Arrives /\ dashboard(u)
    \/ \E u \in Visitors : Arrives /\ students_page(u)
    \/ \E u \in Visitors, m \in Methods, n \in PersonNames : Arrives /\ api_students(u, m, n, 1)
    \/ \E u \in Visitors, id \in StudentIds : Arrives /\ get_student(u, id)
    \/ \E u \in Visitors, id \in StudentIds, n \in PersonNames : Arrives /\ update_student(u, id, n, 1)
    \/ \E u \in Visitors, id \in StudentIds : Arrives /\ delete_student(u, id)
    \/ \E u \in Visitors : Arrives /\ classes_page(u)
    \/ \E u \in Visitors, m \in Methods, n \in PersonNames : Arrives /\ api_classes(u, m, n)
    \/ \E u \in Visitors : Arrives /\ subjects_page(u)
    \/ \E u \in Visitors, m \in Methods, f \in OneSubjectForm : Arrives /\ add_subject(u, m, f)
    \/ \E u \in Visitors, m \in Methods, id \in SubjectIds, f \in OneSubjectForm :
           Arrives /\ edit_subject(u, m, id, f)
    \/ \E u \in Visitors, id \in SubjectIds : Arrives /\ delete_subject(u, id)
    \/ \E u \in Visitors, id \in SubjectIds : Arrives /\ assign_subject(u, id)
    \/ \E u \in Visitors, id \in SubjectIds : Arrives /\ unassign_subject(u, id)
    \/ \E u \in Visitors : Arrives /\ grades_page(u)
    \/ \E u \in Visitors : Arrives /\ api_grades(u)
    \/ \E u \in Visitors, m \in Methods, f \in OneGradeForm : Arrives /\ add_grade(u, m, f, 2)
    \/ \E u \in Visitors, m \in Methods, id \in GradeIds, f \in OneGradeForm :
           Arrives /\ edit_grade(u, m, id, f, 2)
    \/ \E u \in Visitors, id \in GradeIds : Arrives /\ delete_grade(u, id)

SpecLogin == Init /\ [][NextLogin]_vars

\* ---- SpecRoles: every handler, asked by every kind of user the table admits
\* Role.name is any string and User.role_id is nullable: next to the seeded
\* users, user 3 has a role outside the four the handlers name and user 6
\* has no role.
InitRoles ==
    /\ users = (1 :> [name |-> "Admin User", role |-> "Admin",
                     email |-> "admin@example.com", password_hash |-> Hash("password123")]) @@
               (2 :> [name |-> "Michael Johnson", role |-> "Teacher",
                     email |-> "michael.johnson@edutrack.com", password_hash |-> Hash("teacher123")]) @@
               (3 :> [name |-> "Laura Brown", role |-> "Librarian",
                     email |-> "laura.brown@edutrack.com", password_hash |-> Hash("library123")]) @@
               (4 :> [name |-> "Alice", role |-> "Student",
                     email |-> "alice.smith@student.edu", password_hash |-> Hash("student123")]) @@
               (5 :> [name |-> "Mary Smith", role |-> "Parent",
                     email |-> "mary.smith@parent.com", password_hash |-> Hash("parent123")]) @@
               (6 :> [name |-> "Bob", role |-> NoRole,
                     email |-> "bob@example.com", password_hash |-> Hash("password123")])
    /\ classes = (1 :> [name |-> "Grade 1A", teacher_id |-> 2])
    /\ students = (1 :> [name |-> "Alice", class_id |-> 1])
    /\ subjects = << >>
    /\ grades = << >>
    /\ teacher_subject = {}
    /\ parent_student = {<<5, 1>>}
    /\ resp = Idle

SpecRoles == InitRoles /\ [][Next]_vars

\* ================================================================= claims
\* What the claims say of a request: who asked, with which role when asked.
Asked(r, op) == r.op = op /\ r.actor \in DOMAIN users

Denied(r) == r.status = "DENIED"

\* The teachers, by the role column.
Teachers == {t \in DOMAIN users : users[t].role = "Teacher"}

\* T created s or is assigned to s, read off the tables.
OwnsOrAssigned(T, s) == subjects[s].created_by = T \/ <<T, s>> \in teacher_subject

\* C1: an edit_subject request of a teacher T for an existing subject s is
\* let through exactly when s.created_by = T.id or s is one of T's assigned
\* subjects, and a refused one leaves the subject row as it was.
C1_EditSubjectOwnership ==
    [][ (Asked(resp', "edit_subject") /\ resp'.actor \in Teachers
           /\ resp'.id \in DOMAIN subjects)
        => /\ Denied(resp') <=> ~OwnsOrAssigned(resp'.actor, resp'.id)
           /\ Denied(resp') => subjects' = subjects ]_vars

\* C1 witness: a teacher who did not create the subject but is assigned to
\* it has changed it.
C1_Witness ==
    /\ Asked(resp, "edit_subject") /\ resp.actor \in Teachers
    /\ resp.method = "POST" /\ resp.status = "OK"
    /\ resp.id \in DOMAIN subjects
    /\ subjects[resp.id].created_by # resp.actor
    /\ <<resp.actor, resp.id>> \in teacher_subject

\* C2: a delete_subject request of a teacher T for an existing subject s is
\* let through exactly when s.created_by = T.id; every pair (T, s) the
\* delete check lets through the edit check lets through too; and a refused
\* delete leaves the subject in the table.
C2_DeleteSubjectCreatorOnly ==
    /\ [](\A T \in Teachers, s \in DOMAIN subjects :
              MayDeleteSubject(T, s) => MayEditSubject(T, s))
    /\ [][ (Asked(resp', "delete_subject") /\ resp'.actor \in Teachers
              /\ resp'.id \in DOMAIN subjects)
           => /\ Denied(resp') <=> subjects[resp'.id].created_by # resp'.actor
              /\ Denied(resp') => subjects' = subjects ]_vars

\* C2 witness: a teacher assigned to a subject somebody else created was
\* refused its deletion.
C2_Witness ==
    /\ Asked(resp, "delete_subject") /\ resp.actor \in Teachers
    /\ Denied(resp)
    /\ resp.id \in DOMAIN subjects
    /\ <<resp.actor, resp.id>> \in teacher_subject

\* C3: for a subject s created by teacher A and another teacher B: B's edit
\* of s is refused while B is not assigned to s; assign_subject by B makes B
\* assigned; while B is assigned B's edit is let through and B's delete is
\* still refused; unassign_subject by B makes B unassigned, so that B's edit
\* is refused again.
C3_AssignThenEdit ==
    [][ \A B \in Teachers, s \in DOMAIN subjects :
          (resp'.actor = B /\ resp'.id = s /\ subjects[s].created_by \in Teachers \ {B})
          => /\ resp'.op = "edit_subject" => (Denied(resp') <=> <<B, s>> \notin teacher_subject)
             /\ resp'.op = "delete_subject" => Denied(resp')
             /\ resp'.op = "assign_subject" =>
                    <<B, s>> \in teacher_subject' /\ subjects' = subjects
             /\ resp'.op = "unassign_subject" =>
                    <<B, s>> \notin teacher_subject' /\ subjects' = subjects ]_vars

\* C3 witness: B, who had been assigned to A's subject, has unassigned and is
\* refused the edit again.
C3_Witness ==
    /\ Asked(resp, "unassign_subject") /\ resp.actor \in Teachers
    /\ resp.flash = "success"
    /\ resp.id \in DOMAIN subjects
    /\ subjects[resp.id].created_by \in Teachers \ {resp.actor}
    /\ ~MayEditSubject(resp.actor, resp.id)

\* The role the asking user had when the request arrived.
AskedAs(r, roles) == r # Idle /\ r.actor \in DOMAIN users /\ users[r.actor].role \in roles

\* C4 as stated: no handler ever refuses an Admin, assign_subject and
\* unassign_subject included.
C4_AdminNeverDenied ==
    [][ AskedAs(resp', {"Admin"}) => ~Denied(resp') ]_vars

\* C4 as amended: the handlers that refuse an Admin are exactly
\* assign_subject and unassign_subject (teachers only); every other handler
\* lets every Admin request through.
C4_AdminDeniedOnlyAssign ==
    [][ AskedAs(resp', {"Admin"})
        => (Denied(resp') <=> resp'.op \in {"assign_subject", "unassign_subject"}) ]_vars

\* C4 witness: an Admin was refused the assignment to an existing subject.
C4_Witness ==
    /\ Asked(resp, "assign_subject") /\ users[resp.actor].role = "Admin"
    /\ Denied(resp)
    /\ resp.id \in DOMAIN subjects

\* The handlers that manage students, classes, teachers and subjects, and
\* the ones that add, edit and delete grades.
ManagementOps ==
    {"students_page", "api_students", "get_student", "update_student", "delete_student",
     "teachers", "add_teacher", "edit_teacher", "delete_teacher",
     "classes_page", "api_classes",
     "subjects", "add_subject", "edit_subject", "delete_subject",
     "assign_subject", "unassign_subject",
     "add_grade", "edit_grade", "delete_grade"}

\* C5: every management request of a Student or Parent user is refused, and
\* every table is the same before and after it.
C5_StudentParentDenied ==
    [][ (AskedAs(resp', {"Student", "Parent"}) /\ resp'.op \in ManagementOps)
        => Denied(resp') /\ tables' = tables ]_vars

\* C5 witness: a Parent was refused the assignment to an existing subject.
C5_Witness ==
    /\ Asked(resp, "assign_subject") /\ users[resp.actor].role = "Parent"
    /\ Denied(resp)
    /\ resp.id \in DOMAIN subjects

\* A response hands out the whole of a non-empty table.
HandsAll(r, list, table) == list \in r.gives /\ table # {} /\ r.rows[list] = table

\* C6: no response to a Student or Parent user hands out the whole Student
\* table or the whole Subject table.
C6_NoTablesForStudentParent ==
    [][ AskedAs(resp', {"Student", "Parent"})
        => /\ ~HandsAll(resp', "students", DOMAIN students)
           /\ ~HandsAll(resp', "subjects", DOMAIN subjects) ]_vars

\* C7: an edit_grade or delete_grade request of a teacher T for an existing
\* grade g is let through exactly when g.teacher_id, as it is when the
\* request arrives, is T.id; a refused one leaves the grade table as it was.
C7_GradeOwnership ==
    [][ (resp'.op \in {"edit_grade", "delete_grade"} /\ resp'.actor \in Teachers
           /\ resp'.id \in DOMAIN grades)
        => /\ Denied(resp') <=> grades[resp'.id].teacher_id # resp'.actor
           /\ Denied(resp') => grades' = grades ]_vars

\* C7 witness: a teacher was refused the deletion of another teacher's grade.
C7_Witness ==
    /\ Asked(resp, "delete_grade") /\ resp.actor \in Teachers
    /\ Denied(resp)
    /\ resp.id \in DOMAIN grades
    /\ grades[resp.id].teacher_id \in Teachers

\* C8: an Admin's edit_grade of an existing grade is let through and leaves
\* the teacher_id the form carried, or the old one when it carried none; a
\* teacher's edit_grade leaves teacher_id as it was whatever the form
\* carried; and once an Admin's edit has moved a grade from teacher T1 to
\* teacher T2, the edit and delete checks refuse T1 and let T2 through.
C8_AdminReassignsGrade ==
    [][ \A u \in {resp'.actor} \cap DOMAIN users, id \in {resp'.id} \cap DOMAIN grades :
        \A f \in GradeForms, t \in 0..MaxUsers :
          (Request(u) /\ resp'.op = "edit_grade" /\ edit_grade(u, "POST", id, f, t))
          => /\ users[u].role = "Admin" =>
                  /\ resp'.status = "OK"
                  /\ grades'[id].teacher_id = (IF t = 0 THEN grades[id].teacher_id ELSE t)
             /\ users[u].role = "Teacher" =>
                  grades'[id].teacher_id = grades[id].teacher_id
             /\ \A T1 \in Teachers, T2 \in Teachers :
                  (users[u].role = "Admin" /\ grades[id].teacher_id = T1 /\ t = T2 /\ T1 # T2)
                  => /\ ~MayEditGrade(T1, id)' /\ ~MayDeleteGrade(T1, id)'
                     /\ MayEditGrade(T2, id)' /\ MayDeleteGrade(T2, id)' ]_vars

\* C8 witness: an Admin's edit was let through and the grade now belongs to
\* teacher 3, who may edit it while teacher 2 may not.
C8_Witness ==
    /\ Asked(resp, "edit_grade") /\ users[resp.actor].role = "Admin"
    /\ resp.method = "POST" /\ resp.status = "OK"
    /\ grades[resp.id].teacher_id = 3
    /\ MayEditGrade(3, resp.id) /\ ~MayEditGrade(2, resp.id)

GradeListOps == {"grades", "api_grades"}

\* C9: the grade list a Parent user P gets, from the page and from the API,
\* is let through and holds exactly the grades whose student_id is a student
\* linked to P in parent_student: all of them, nothing else, and nothing at
\* all when P has no children.
C9_ParentSeesChildrenGrades ==
    (resp.op \in GradeListOps /\ AskedAs(resp, {"Parent"}))
    => /\ resp.status = "OK"
       /\ "grades" \in resp.gives
       /\ resp.rows.grades =
              {g \in DOMAIN grades : <<resp.actor, grades[g].student_id>> \in parent_student}

\* C9 witness: a Parent got some grades while the table holds others too.
C9_Witness ==
    /\ resp.op \in GradeListOps /\ AskedAs(resp, {"Parent"})
    /\ resp.rows.grades # {}
    /\ resp.rows.grades # DOMAIN grades

\* The Student records named like user U, by id.
Namesakes(U) == {s \in DOMAIN students : students[s].name = users[U].name}

\* C10: the grade list a Student user U gets is let through and holds
\* exactly the grades of the first (lowest id) Student record named U.name,
\* and no grade of any other record of that name; it is empty when no record
\* has that name.
C10_StudentSeesFirstNamesake ==
    (resp.op \in GradeListOps /\ AskedAs(resp, {"Student"}))
    => /\ resp.status = "OK"
       /\ "grades" \in resp.gives
       /\ resp.rows.grades =
              {g \in DOMAIN grades :
                   /\ grades[g].student_id \in Namesakes(resp.actor)
                   /\ \A s \in Namesakes(resp.actor) : grades[g].student_id <= s}

\* C10 witness: two records carry the user's name, both have grades, and the
\* list holds grades of the first and none of the second.
C10_Witness ==
    /\ resp.op \in GradeListOps /\ AskedAs(resp, {"Student"})
    /\ resp.rows.grades # {}
    /\ \E s \in Namesakes(resp.actor), g \in DOMAIN grades :
           /\ s # Min(Namesakes(resp.actor))
           /\ grades[g].student_id = s
           /\ g \notin resp.rows.grades

\* C11: the grade list a Teacher T gets, from the page and from the API,
\* holds exactly the grades with teacher_id = T.id, and the one an Admin gets
\* holds every grade of the table.
C11_TeacherOwnGradesAdminAll ==
    (resp.op \in GradeListOps /\ AskedAs(resp, {"Teacher", "Admin"}))
    => /\ resp.status = "OK"
       /\ "grades" \in resp.gives
       /\ users[resp.actor].role = "Teacher" =>
              resp.rows.grades = {g \in DOMAIN grades : grades[g].teacher_id = resp.actor}
       /\ users[resp.actor].role = "Admin" => resp.rows.grades = DOMAIN grades

\* C11 witness: a Teacher got some grades while the table holds grades of
\* another teacher too.
C11_Witness ==
    /\ resp.op \in GradeListOps /\ AskedAs(resp, {"Teacher"})
    /\ resp.rows.grades # {}
    /\ resp.rows.grades # DOMAIN grades

\* The role names the handlers compare with.
KnownRoles == {"Admin", "Teacher", "Student", "Parent"}

\* C12: whatever user the table holds asks a handler that checks the role,
\* the check does not end in an exception, and a user whose role is none of
\* the four named ones (or who has no role) is refused.
C12_PermissionTotalFailClosed ==
    [][ (resp' # Idle /\ resp'.op # "dashboard" /\ resp'.actor \in DOMAIN users)
        => /\ resp'.via # "raise"
           /\ users[resp'.actor].role \notin KnownRoles => Denied(resp') ]_vars

\* The form f would give subject `self` (0: a new subject) the name or the
\* code of another subject.
Collides(f, self) ==
    \E s \in DOMAIN subjects \ {self} : subjects[s].name = f.name \/ subjects[s].code = f.code

\* C13: no two Subject rows ever have the same name, and no two the same
\* code; an add_subject or edit_subject whose form would give a subject the
\* name or code of another one is not carried out and leaves the subject
\* table as it was.
C13_SubjectNameCodeUnique ==
    /\ [](\A s \in DOMAIN subjects : \A t \in DOMAIN subjects \ {s} :
              subjects[s].name # subjects[t].name /\ subjects[s].code # subjects[t].code)
    /\ [][ \A u \in {resp'.actor} \cap DOMAIN users, f \in SubjectForms :
             /\ (Request(u) /\ resp'.op = "add_subject" /\ add_subject(u, "POST", f)
                   /\ Collides(f, 0))
                => (resp'.status # "OK" /\ subjects' = subjects)
             /\ \A id \in {resp'.id} \cap DOMAIN subjects :
                  (Request(u) /\ resp'.op = "edit_subject" /\ edit_subject(u, "POST", id, f)
                     /\ Collides(f, id))
                  => (resp'.status # "OK" /\ subjects' = subjects) ]_vars

\* C13 witness: with two subjects in the table, an edit that its author was
\* allowed to make was rejected for a name or code already taken.
C13_Witness ==
    /\ Asked(resp, "edit_subject") /\ resp.status = "REJECTED"
    /\ Cardinality(DOMAIN subjects) = 2

\* The handlers that take the id of a row, and the ids their table holds.
StudentIdOps == {"get_student", "update_student", "delete_student"}

TeacherIdOps == {"edit_teacher", "delete_teacher"}

SubjectIdOps == {"edit_subject", "delete_subject", "assign_subject", "unassign_subject"}

GradeIdOps == {"edit_grade", "delete_grade"}

IdOps == StudentIdOps \cup TeacherIdOps \cup SubjectIdOps \cup GradeIdOps

TargetIds(op) ==
    IF op \in StudentIdOps THEN DOMAIN students
    ELSE IF op \in TeacherIdOps THEN DOMAIN users
    ELSE IF op \in SubjectIdOps THEN DOMAIN subjects
    ELSE DOMAIN grades

\* A request of one of these handlers named a row its table does not hold.
MissingTarget(r) ==
    r.op \in IdOps /\ r.actor \in DOMAIN users /\ r.id \notin TargetIds(r.op)

\* The roles the role check of the handler lets in.
RolesLetIn(op) ==
    IF op \in TeacherIdOps THEN {"Admin"}
    ELSE IF op \in {"assign_subject", "unassign_subject"} THEN {"Teacher"}
    ELSE {"Admin", "Teacher"}

C15_AssignOnlySelf ==
    [][ (resp'.op \in {"assign_subject", "unassign_subject"} /\ resp'.actor \in DOMAIN users)
        => /\ \A A \in {resp'.actor} \cap Teachers, s \in {resp'.id} \cap DOMAIN subjects :
                 /\ SubjectsOf(A)' = (IF resp'.op = "assign_subject"
                                      THEN SubjectsOf(A) \cup {s}
                                      ELSE SubjectsOf(A) \ {s})
                 /\ \A T \in Teachers \ {A} : SubjectsOf(T)' = SubjectsOf(T)
                 /\ subjects' = subjects
           /\ resp'.actor \notin Teachers => (Denied(resp') /\ tables' = tables) ]_vars

\* C15 witness: a teacher has unassigned from a subject that another teacher
\* is still assigned to.
C15_Witness ==
    /\ Asked(resp, "unassign_subject") /\ resp.actor \in Teachers
    /\ resp.flash = "success"
    /\ \E T \in Teachers \ {resp.actor} : <<T, resp.id>> \in teacher_subject

\* The student rows of the seed data, which no teacher created.
SeededStudents == {1}

\* The class of student s is assigned to teacher T (Class.teacher_id).
InClassOf(T, s) ==
    /\ students[s].class_id \in DOMAIN classes
    /\ classes[students[s].class_id].teacher_id = T

\* C16: update_student and delete_student asked by a teacher T are refused
\* for every student that T did not create and whose class is not assigned
\* to T.  Stated for the seeded students, whose creator is known: the
\* Student table keeps no creator.
C16_TeacherWritesOwnStudents ==
    [][ (resp'.op \in {"update_student", "delete_student"} /\ resp'.actor \in Teachers
           /\ resp'.id \in SeededStudents \cap DOMAIN students
           /\ ~InClassOf(resp'.actor, resp'.id))
        => (Denied(resp') /\ students' = students) ]_vars

\* A teacher's list request was let through with every row of the table.
TeacherGotAll(r, op, list, table) ==
    (r.op = op /\ r.method = "GET" /\ AskedAs(r, {"Teacher"}))
    => (r.status = "OK" /\ list \in r.gives /\ r.rows[list] = table)

\* C17 as stated: the student list, the class list, the subject list and
\* the teacher list are let through for every teacher, each with every row.
C17_TeacherListsAll ==
    /\ TeacherGotAll(resp, "api_students", "students", DOMAIN students)
    /\ TeacherGotAll(resp, "api_classes", "classes", DOMAIN classes)
    /\ TeacherGotAll(resp, "subjects", "subjects", DOMAIN subjects)
    /\ TeacherGotAll(resp, "teachers", "users", Teachers)

\* C17 as amended: the student list, the class list and the subject list
\* are let through for every teacher, each with every row; the teacher list
\* is for Admins only and refuses a teacher.
C17_TeacherListsAllButTeachers ==
    /\ TeacherGotAll(resp, "api_students", "students", DOMAIN students)
    /\ TeacherGotAll(resp, "api_classes", "classes", DOMAIN classes)
    /\ TeacherGotAll(resp, "subjects", "subjects", DOMAIN subjects)
    /\ (resp.op = "teachers" /\ AskedAs(resp, {"Teacher"})) => Denied(resp)
    /\ (resp.op = "teachers" /\ AskedAs(resp, {"Admin"}))
           => (resp.status = "OK" /\ resp.rows.users = Teachers)

\* C17 witness: a teacher got the student list, with the seeded student and
\* one that a request added.
C17_Witness ==
    /\ resp.op = "api_students" /\ resp.method = "GET" /\ AskedAs(resp, {"Teacher"})
    /\ resp.status = "OK"
    /\ Cardinality(resp.rows.students) = 2

\* The handlers of the JSON routes; the others are page routes.
JsonOps ==
    {"api_students", "get_student", "update_student", "delete_student", "api_classes",
     "api_grades"}

\* The roles the role check of a JSON route lets in.
JsonRolesLetIn(op) == IF op = "api_grades" THEN KnownRoles ELSE {"Admin", "Teacher"}

\* C18: a JSON route answers a user whose role it does not let in with
\* status 403 and the error body; a page route answers every refusal, of a
\* role check or of an ownership check, with a redirect and a flashed
\* notice; and no refusal hands out rows.
C18_DenialShape ==
    /\ (resp.op \in JsonOps /\ resp.actor \in DOMAIN users
          /\ users[resp.actor].role \notin JsonRolesLetIn(resp.op) \cup {NoRole})
       => (Denied(resp) /\ resp.via = "json" /\ resp.http = 403)
    /\ Denied(resp)
       => /\ resp.gives = {} /\ resp.rows = NoRows
          /\ resp.op \in JsonOps => (resp.via = "json" /\ resp.http = 403)
          /\ resp.op \notin JsonOps =>
                 (resp.via = "redirect" /\ resp.http = 302 /\ resp.flash \in {"message", "danger"})

\* C18 witness: the grades API refused a user whose role is none of the
\* four it names.
C18_Witness ==
    /\ Asked(resp, "api_grades") /\ Denied(resp)
    /\ resp.http = 403

\* C19: no request changes the role of a user: every user who is in the
\* table before and after a step has the role it had, a user that
\* add_teacher creates is a Teacher from the start, and an edit_teacher that
\* is carried out changes nothing but the name and the email of the user it
\* names.
C19_RoleImmutable ==
    [][ /\ \A u \in DOMAIN users \cap DOMAIN users' : users'[u].role = users[u].role
        /\ \A u \in DOMAIN users' \ DOMAIN users :
               resp'.op = "add_teacher" /\ users'[u].role = "Teacher"
        /\ (resp'.op = "edit_teacher" /\ resp'.method = "POST" /\ resp'.status = "OK")
               => users' = [users EXCEPT ![resp'.id].name = users'[resp'.id].name,
                                        ![resp'.id].email = users'[resp'.id].email] ]_vars

\* C19 witness: an Admin's edit_teacher has renamed a teacher, who is a
\* teacher still.
C19_Witness ==
    /\ Asked(resp, "edit_teacher") /\ resp.method = "POST" /\ resp.status = "OK"
    /\ resp.id \in DOMAIN users
    /\ users[resp.id].name = "Bob"
    /\ users[resp.id].role = "Teacher"

\* C20: a grade that add_grade creates for a teacher T has teacher_id =
\* T.id whatever the form carried, and one it creates for an Admin has the
\* teacher_id of the form, or the Admin's id when the form carried none; and
\* no request of a teacher changes the teacher_id of a grade or creates a
\* grade of anybody else, so that with teachers acting alone every grade
\* stays with the teacher who created it.
C20_TeacherGradesStayOwn ==
    [][ \A u \in {resp'.actor} \cap DOMAIN users :
          /\ users[u].role = "Teacher" =>
                 \A g \in DOMAIN grades' :
                     grades'[g].teacher_id = (IF g \in DOMAIN grades THEN grades[g].teacher_id ELSE u)
          /\ \A f \in GradeForms, t \in 0..MaxUsers :
                 (Request(u) /\ resp'.op = "add_grade" /\ add_grade(u, "POST", f, t)
                    /\ resp'.status = "OK")
                 => grades'[resp'.id].teacher_id =
                        (IF users[u].role = "Teacher" \/ t = 0 THEN u ELSE t) ]_vars

\* C20 witness: a teacher has added a grade, and it is that teacher's.
C20_Witness ==
    /\ Asked(resp, "add_grade") /\ resp.method = "POST" /\ resp.status = "OK"
    /\ resp.actor \in Teachers
    /\ resp.id \in DOMAIN grades
    /\ grades[resp.id].teacher_id = resp.actor

\* C21: edit_teacher and delete_teacher change and remove teachers only: a
\* request of either that names a user whose role is not Teacher (the Admin
\* who asks included) leaves that user in the table, as it was.
C21_OnlyTeachersManaged ==
    [][ \A id \in {resp'.id} \cap DOMAIN users :
          (resp'.op \in {"edit_teacher", "delete_teacher"} /\ users[id].role # "Teacher")
          => (id \in DOMAIN users' /\ users'[id] = users[id]) ]_vars

\* ---- C22
\* The response went to a caller without a session.
NoSession(r) == r # Idle /\ r.actor = 0

\* C22: every route other than home and login turns a caller without a
\* session away to the login page; no response to such a caller carries a
\* row, and none of students, classes, users, subjects, assignments or
\* grades changes; and login starts a session only for the user whose email
\* was given, when the given password is the one its stored hash was made of.
C22_LoginRequired ==
    [][ /\ NoSession(resp') =>
              /\ resp'.gives = {} /\ resp'.rows = NoRows
              /\ tables' = tables
              /\ resp'.op \notin {"home", "login"} => resp'.status = "UNAUTHENTICATED"
        /\ \A m \in Methods, e \in LoginEmails, pw \in LoginPasswords :
              (resp'.op = "login" /\ login(m, e, pw) /\ resp'.actor # 0) =>
                  /\ m = "POST"
                  /\ resp'.actor \in DOMAIN users
                  /\ users[resp'.actor].email = e
                  /\ users[resp'.actor].password_hash = Hash(pw)
                  /\ tables' = tables /\ resp'.gives = {} /\ resp'.rows = NoRows ]_vars

\* A caller whose session's user was deleted asked for the grades JSON while
\* the tables held an added teacher, and was sent to the login page.
C22_Witness ==
    /\ resp.op = "api_grades" /\ resp.status = "UNAUTHENTICATED"
    /\ \E t \in DOMAIN users : users[t].email = "bob.stone@edutrack.com"
    /\ 2 \notin DOMAIN users

\* ---- C23
\* C23: the subject add_subject stores carries the acting user's id as
\* created_by; for a Teacher the link to the new subject is added to the
\* assignments and nothing else changes there, for an Admin the assignments
\* stay as they were and no teacher is linked to the new subject;
\* unassign_subject leaves created_by alone; and a Teacher who created a
\* subject and is not assigned to it is refused neither by edit_subject nor
\* by delete_subject.
C23_CreatorKeepsSubject ==
    [][ \A u \in {resp'.actor} \cap DOMAIN users :
          /\ (resp'.op = "add_subject" /\ resp'.method = "POST" /\ resp'.status = "OK") =>
                /\ DOMAIN subjects' = DOMAIN subjects \cup {resp'.id}
                /\ resp'.id \notin DOMAIN subjects
                /\ subjects'[resp'.id].created_by = u
                /\ users[u].role = "Teacher" =>
                       teacher_subject' = teacher_subject \cup {<<u, resp'.id>>}
                /\ users[u].role = "Admin" =>
                       /\ teacher_subject' = teacher_subject
                       /\ \A t \in DOMAIN users : <<t, resp'.id>> \notin teacher_subject'
          /\ resp'.op = "unassign_subject" => subjects' = subjects
          /\ \A s \in {resp'.id} \cap DOMAIN subjects :
                (/\ resp'.op \in {"edit_subject", "delete_subject"}
                 /\ users[u].role = "Teacher"
                 /\ subjects[s].created_by = u
                 /\ <<u, s>> \notin teacher_subject) => ~Denied(resp') ]_vars

\* A teacher who created a subject and is no longer assigned to it has
\* edited it.
C23_Witness ==
    /\ Asked(resp, "edit_subject") /\ resp.method = "POST" /\ resp.status = "OK"
    /\ resp.actor \in Teachers
    /\ resp.id \in DOMAIN subjects
    /\ subjects[resp.id].created_by = resp.actor
    /\ <<resp.actor, resp.id>> \notin teacher_subject

\* ---- C24
\* C24: the assignments are a set of (teacher, subject) links. For a Teacher
\* and an existing subject, assign_subject on a link that is there and
\* unassign_subject on a link that is not there answer with the notice and
\* change no table; assign_subject on a missing link adds exactly that link
\* and unassign_subject on a present link removes exactly that link, so that
\* an assign followed by an unassign gives back the assignments it started
\* from; neither ever fails.
C24_AssignmentIsASet ==
    [][ \A T \in {resp'.actor} \cap Teachers, s \in {resp'.id} \cap DOMAIN subjects :
          /\ resp'.op = "assign_subject" =>
                /\ resp'.status = "OK"
                /\ teacher_subject' = teacher_subject \cup {<<T, s>>}
                /\ (teacher_subject' \ {<<T, s>>} = teacher_subject) <=> <<T, s>> \notin teacher_subject
                /\ <<T, s>> \in teacher_subject => resp'.flash = "info" /\ tables' = tables
          /\ resp'.op = "unassign_subject" =>
                /\ resp'.status = "OK"
                /\ teacher_subject' = teacher_subject \ {<<T, s>>}
                /\ <<T, s>> \notin teacher_subject => resp'.flash = "info" /\ tables' = tables
          /\ resp'.op \in {"assign_subject", "unassign_subject"} =>
                UNCHANGED <<users, classes, students, subjects, grades, parent_student>> ]_vars

\* A teacher asked to be assigned to a subject a second time, next to
\* another teacher's link to the same subject.
C24_Witness ==
    /\ Asked(resp, "assign_subject") /\ resp.flash = "info"
    /\ <<resp.actor, resp.id>> \in teacher_subject
    /\ \E t \in Teachers \ {resp.actor} : <<t, resp.id>> \in teacher_subject

=============================================================================
